---- MODULE Spec2Model ----
(***************************************************************************)
(* A model of src/bridge/claude_adapter.py: ClaudeAdapter, the manager of  *)
(* long-lived child processes keyed by session key.  The state is the      *)
(* registry (_sessions), its lock (_sessions_lock), the ClaudeSession      *)
(* objects (process, lock, last_used), the shutdown event, the position of *)
(* every thread inside ask / _cleanup_worker / close, and the clock.       *)
(***************************************************************************)
EXTENDS Integers, Sequences, FiniteSets, TLC

\* ------------------------------------------------------------- bounds
NumThreads == 2          \* threads calling ask concurrently
NumKeys == 1             \* distinct session keys
MaxTime == 2             \* the clock runs 0..MaxTime
IdleTimeout == 1         \* idle_timeout_seconds, scaled to the clock
MaxOutLen == 4           \* longest text the child writes

Threads == 1..NumThreads
Keys == 1..NumKeys
\* One ClaudeSession object (with its Popen) per slot: the registry, every
\* ask thread, the cleanup thread and close() can each refer to one.
MaxProcs == NumKeys + NumThreads + 2
Procs == 1..MaxProcs
None == 0

VARIABLES
    now,            \* time.time()
    alive,          \* alive[p]: process.poll() is None
    last_used,      \* ClaudeSession.last_used
    slock,          \* ClaudeSession.lock: the thread holding it, or None
    sessions,       \* self._sessions: key -> session (None: absent)
    sessions_lock,  \* self._sessions_lock: holder, or None
    shutdown,       \* self._shutdown_event
    pc,             \* position of each ask thread
    key,            \* ask's session_key
    sess,           \* ask's local `session`
    err,            \* the exception ask raised ("none", "spawn", "io")
    startDead,      \* a registry lookup of this call found a dead session
    rpc,            \* position of the cleanup thread
    rnow,           \* _cleanup_worker's local `now`
    stale,          \* _cleanup_worker's local `stale`
    rsess,          \* _terminate_session's local `session` (cleanup thread)
    cpc,            \* position of the thread inside close()
    ckeys,          \* close's local `keys`
    csess,          \* _terminate_session's local `session` (close)
    tx_pc,          \* the text specification: position
    tx_out,         \* the text specification: _read_response's result
    tx_ret,         \* the text specification: ask's result
    rd_pc,          \* position inside _read_response
    rd_now,         \* time.time() of the reader, in units of 0.05 s
    rd_deadline,    \* _read_response's local `deadline`
    rd_quiet,       \* _read_response's local `quiet_deadline`
    rd_until,       \* the moment the pending select() times out
    rd_chunks,      \* _read_response's local `chunks`, joined
    rd_pipe,        \* what the child has written and the reader not yet read
    rd_sent,        \* how many pieces of text the child has written
    rd_closed,      \* the child has closed its end of the stream
    rd_eof,         \* a zero-length read has happened
    rd_at_eof,      \* `chunks` at the first zero-length read
    rd_last,        \* the moment of the last read that returned data
    rd_ret,         \* _read_response's result
    hd_pc,          \* position inside handle_incoming_event
    hd_event,       \* the QQMessageEvent that parse_event returned
    hd_asks,        \* the calls of claude_adapter.ask, in order
    hd_sends,       \* the calls of qq_adapter.send_message, in order
    hd_resp,        \* handle_incoming_event's local `claude_response`
    hd_result,      \* what handle_incoming_event returned
    cfg_pc,         \* position of the program around BridgeConfig.from_env
    cfg_env,        \* os.environ, after load_dotenv
    cfg_result      \* what from_env returned, or the errors it raised with

vars == <<now, alive, last_used, slock, sessions, sessions_lock, shutdown,
          pc, key, sess, err, startDead,
          rpc, rnow, stale, rsess, cpc, ckeys, csess, tx_pc, tx_out, tx_ret,
          rd_pc, rd_now, rd_deadline, rd_quiet, rd_until, rd_chunks, rd_pipe,
          rd_sent, rd_closed, rd_eof, rd_at_eof, rd_last, rd_ret,
          hd_pc, hd_event, hd_asks, hd_sends, hd_resp, hd_result,
          cfg_pc, cfg_env, cfg_result>>

\* the objects and the references to them
heapVars == <<alive, last_used, slock, sessions, sess, rsess, csess>>
askVars == <<pc, key, err, startDead>>
reaperVars == <<rpc, rnow, stale>>
closeVars == <<cpc, ckeys>>
textVars == <<tx_pc, tx_out, tx_ret>>
readerVars == <<rd_pc, rd_now, rd_deadline, rd_quiet, rd_until, rd_chunks, rd_pipe,
                rd_sent, rd_closed, rd_eof, rd_at_eof, rd_last, rd_ret>>
handlerVars == <<hd_pc, hd_event, hd_asks, hd_sends, hd_resp, hd_result>>
configVars == <<cfg_pc, cfg_env, cfg_result>>
\* the variables of the service around the manager
serviceVars == <<handlerVars, configVars>>
managerVars == <<now, heapVars, sessions_lock, shutdown, askVars, reaperVars, closeVars>>

\* ------------------------------------------------------------- the heap
\* The objects of a state, as one record.
Heap ==
    [alive |-> alive, last_used |-> last_used, slock |-> slock,
     sessions |-> sessions, sess |-> sess, rsess |-> rsess, csess |-> csess]

\* The references of heap h, in a fixed order.
RefSeq(h) ==
    [i \in 1..(NumKeys + 2 + NumThreads) |->
        IF i <= NumKeys THEN h.sessions[i]
        ELSE IF i = NumKeys + 1 THEN h.rsess
        ELSE IF i = NumKeys + 2 THEN h.csess
        ELSE h.sess[i - NumKeys - 2]]

\* Objects have no names in the program.  A state names them by the order of
\* the references to them; a live process that nothing refers to any more
\* comes after these; an object that nothing refers to and whose process has
\* exited is garbage and is dropped.  NameOf is the name of object p, given
\* the references `refs` and the liveness `al` of a heap.
NameOf(refs, al, p) ==
    IF p = None THEN None
    ELSE IF \E i \in DOMAIN refs : refs[i] = p
    THEN LET first == CHOOSE i \in DOMAIN refs :
                          refs[i] = p /\ \A j \in 1..(i - 1) : refs[j] # p
         IN  Cardinality({refs[j] : j \in 1..(first - 1)} \ {None}) + 1
    ELSE IF al[p]
    THEN Cardinality({refs[j] : j \in DOMAIN refs} \ {None})
         + Cardinality({q \in 1..p : al[q] /\ \A j \in DOMAIN refs : refs[j] # q})
    ELSE None

\* The object that gets name n, or None.
Named(name, n) ==
    IF \E p \in Procs : name[p] = n THEN CHOOSE p \in Procs : name[p] = n ELSE None

\* The step leaves the heap h.
Install(h) ==
    \E refs \in {RefSeq(h)} :
    \E name \in {[p \in Procs \cup {None} |-> NameOf(refs, h.alive, p)]} :
    \E old \in {[n \in Procs |-> Named(name, n)]} :
        /\ alive' = [n \in Procs |-> IF old[n] = None THEN FALSE ELSE h.alive[old[n]]]
        /\ last_used' = [n \in Procs |-> IF old[n] = None THEN 0 ELSE h.last_used[old[n]]]
        /\ slock' = [n \in Procs |-> IF old[n] = None THEN None ELSE h.slock[old[n]]]
        /\ sessions' = [k \in Keys |-> name[h.sessions[k]]]
        /\ sess' = [t \in Threads |-> name[h.sess[t]]]
        /\ rsess' = name[h.rsess]
        /\ csess' = name[h.csess]

Referenced(p) ==
    \/ \E k \in Keys : sessions[k] = p
    \/ \E t \in Threads : sess[t] = p
    \/ rsess = p
    \/ csess = p

FreeSlot(p) == ~alive[p] /\ ~Referenced(p)

\* The object that ClaudeSession(..., process=self._spawn_process()) creates:
\* a slot that holds no object yet.
NewProc == CHOOSE p \in Procs : FreeSlot(p) /\ \A q \in Procs : FreeSlot(q) => p <= q

\* ------------------------------------------------------------- text
\* Text is a sequence of one-character strings.
NoResponse == <<"(", "n", "o", " ", "r", "e", "s", "p", "o", "n", "s", "e", ")">>
ReadChars == {" ", "\n", "x"}

RECURSIVE SeqsUpTo(_)
SeqsUpTo(n) ==
    IF n = 0 THEN {<<>>}
    ELSE LET shorter == SeqsUpTo(n - 1)
         IN  shorter \cup {Append(s, c) : s \in {x \in shorter : Len(x) = n - 1}, c \in ReadChars}

\* What _read_response can hand back: any short text, the empty text (the
\* stream closed at once, or the deadline passed with no data), and a child
\* that prints the placeholder itself.
Outputs == SeqsUpTo(MaxOutLen) \cup {NoResponse, <<" ">> \o NoResponse \o <<"\n">>}

\* str.isspace, on the characters of this model
IsSpace(c) == c \in {" ", "\n", "\t", "\r"}

RECURSIVE LStrip(_)
LStrip(s) == IF s # <<>> /\ IsSpace(Head(s)) THEN LStrip(Tail(s)) ELSE s

RECURSIVE RStrip(_)
RStrip(s) ==
    IF s # <<>> /\ IsSpace(s[Len(s)]) THEN RStrip(SubSeq(s, 1, Len(s) - 1)) ELSE s

\* str.strip()
Strip(s) == RStrip(LStrip(s))

\* A slip: the placeholder is forgotten.
AskResultNoPlaceholder(output) == Strip(output)

\* `output.strip() or "(no response)"`
AskResult(output) == IF Strip(output) = <<>> THEN NoResponse ELSE Strip(output)

\* ------------------------------------------------------------- helpers
\* `session and session.process.poll() is None`
SessionIsLive(s) == s # None /\ alive[s]

\* A slip: the process is left running.
TerminateProcessSkipped(p) == alive

\* _terminate_process: terminate(), wait(timeout=3), kill(); a no-op on a
\* process that has exited.  The result is the new `alive`.
TerminateProcess(p) == IF alive[p] THEN [alive EXCEPT ![p] = FALSE] ELSE alive

\* A slip: the lock is taken without waiting for its holder.
LockFreeNoWait(s) == TRUE

\* `with session.lock:` blocks until the lock is free.
LockFree(s) == slock[s] = None

\* A slip: the lock is not released on the way out.
LeaveSessionLockHeld(h, t) == [h EXCEPT !.sess[t] = None]

\* Leaving ask's `with session.lock:` block (by return, continue or exception):
\* the lock is released and the local `session` is dead.
LeaveSessionLock(h, t) == [h EXCEPT !.slock[h.sess[t]] = None, !.sess[t] = None]

\* A slip: the registry lock is not released on the way out.
LeaveRegistryLockHeld(t) == t

\* Leaving a `with self._sessions_lock:` block: the holder of the lock after it.
LeaveRegistryLock(t) == None

\* A slip: one more time unit is allowed.
IsStaleSlack(s, t) == (t - last_used[s]) > IdleTimeout + 1

\* `(now - session.last_used) > self._idle_timeout_seconds`
IsStale(s, t) == (t - last_used[s]) > IdleTimeout

\* ------------------------------------------------------------- _read_response: constants
\* The reader's clock counts units of 0.05 s.
RdTimeout == 20          \* timeout_seconds (one second)
QuietWindow == 12        \* quiet_window_seconds = 0.6
OuterPoll == 5           \* the outer select's 0.25
InnerPoll == 2           \* the quiet-window select's 0.1
MinRemaining == 1        \* max(0.05, ...)

\* No run of the reader lasts longer than this.
RdMaxTime == RdTimeout + QuietWindow + InnerPoll

Min(a, b) == IF a < b THEN a ELSE b
Max(a, b) == IF a > b THEN a ELSE b

\* _read_response has not been called yet.
ReaderIdle ==
    /\ rd_pc = "idle"
    /\ rd_now = 0
    /\ rd_deadline = 0
    /\ rd_quiet = 0
    /\ rd_until = 0
    /\ rd_chunks = <<>>
    /\ rd_pipe = <<>>
    /\ rd_sent = 0
    /\ rd_closed = FALSE
    /\ rd_eof = FALSE
    /\ rd_at_eof = <<>>
    /\ rd_last = 0
    /\ rd_ret = <<>>

\* ------------------------------------------------------------- handle_incoming_event: Init
\* handle_incoming_event has not been called yet.
HandlerIdle ==
    /\ hd_pc = "idle"
    /\ hd_event = [event_id |-> "", is_self_message |-> FALSE, sender_id |-> "", text |-> <<>>]
    /\ hd_asks = <<>>
    /\ hd_sends = <<>>
    /\ hd_resp = <<>>
    /\ hd_result = [status |-> "none"]

\* ------------------------------------------------------------- BridgeConfig.from_env: Init
\* no environment read yet
ConfigIdle ==
    /\ cfg_pc = "idle"
    /\ cfg_env = <<>>
    /\ cfg_result = [status |-> "none"]

\* ------------------------------------------------------------- Init
\* ClaudeAdapter.__init__: an empty registry, the cleanup thread started
ManagerInit ==
    /\ now = 0
    /\ alive = [p \in Procs |-> FALSE]
    /\ last_used = [p \in Procs |-> 0]
    /\ slock = [p \in Procs |-> None]
    /\ sessions = [k \in Keys |-> None]
    /\ sessions_lock = None
    /\ shutdown = FALSE
    /\ pc = [t \in Threads |-> "idle"]
    /\ key = [t \in Threads |-> None]
    /\ sess = [t \in Threads |-> None]
    /\ err = [t \in Threads |-> "none"]
    /\ startDead = [t \in Threads |-> FALSE]
    /\ rpc = "r_wait"
    /\ rnow = 0
    /\ stale = {}
    /\ rsess = None
    /\ cpc = "c_idle"
    /\ ckeys = {}
    /\ csess = None

TextIdle ==
    /\ tx_pc = "idle"
    /\ tx_out = <<>>
    /\ tx_ret = <<>>

Init == ManagerInit /\ TextIdle /\ ReaderIdle /\ HandlerIdle /\ ConfigIdle

\* ------------------------------------------------------------- environment
\* time passes
Tick ==
    /\ now < MaxTime
    /\ now' = now + 1
    /\ UNCHANGED <<heapVars, sessions_lock, shutdown, askVars, reaperVars, closeVars, textVars, readerVars, serviceVars>>

\* a child process exits on its own (a crash, an external kill)
ProcessExit(p) ==
    /\ alive[p]
    /\ Install([Heap EXCEPT !.alive[p] = FALSE])
    /\ UNCHANGED <<now, sessions_lock, shutdown, askVars, reaperVars, closeVars, textVars, readerVars, serviceVars>>

\* ------------------------------------------------------------- ask
\* a caller enters ask(session_key, prompt)
AskCall(t, k) ==
    /\ pc[t] = "idle"
    /\ pc' = [pc EXCEPT ![t] = "goc"]
    /\ key' = [key EXCEPT ![t] = k]
    /\ UNCHANGED <<now, heapVars, sessions_lock, shutdown, err, startDead,
                   reaperVars, closeVars, textVars, readerVars, serviceVars>>

\* _get_or_create_session, all of it under the registry lock.  A session whose
\* process has exited goes through _terminate_process, which leaves such a
\* process alone; then _spawn_process succeeds or raises, and the exception
\* leaves ask.
GetOrCreateSession(t) ==
    /\ pc[t] = "goc"
    /\ sessions_lock = None
    /\ LET k == key[t]
           s == sessions[k]
           al == IF s # None /\ ~SessionIsLive(s) THEN TerminateProcess(s) ELSE alive
       IN  /\ startDead' = [startDead EXCEPT ![t] = @ \/ (s # None /\ ~alive[s])]
           /\ \E ok \in BOOLEAN :
               IF SessionIsLive(s)
               THEN /\ ok
                    /\ Install([Heap EXCEPT !.sess[t] = s])
                    /\ pc' = [pc EXCEPT ![t] = "lock_session"]
                    /\ UNCHANGED err
               ELSE IF ok
               THEN /\ Install([Heap EXCEPT !.alive = [al EXCEPT ![NewProc] = TRUE],
                                            !.last_used[NewProc] = now,
                                            !.sessions[k] = NewProc,
                                            !.sess[t] = NewProc])
                    /\ pc' = [pc EXCEPT ![t] = "lock_session"]
                    /\ UNCHANGED err
               ELSE /\ Install([Heap EXCEPT !.alive = al])
                    /\ pc' = [pc EXCEPT ![t] = "raised"]
                    /\ err' = [err EXCEPT ![t] = "spawn"]
    /\ UNCHANGED <<now, sessions_lock, shutdown, key, reaperVars, closeVars, textVars, readerVars, serviceVars>>

\* ask: `with session.lock:`, the liveness re-check inside the lock and, on a
\* live process, `session.last_used = time.time()`
AskLockSession(t) ==
    /\ pc[t] = "lock_session"
    /\ LockFree(sess[t])
    /\ slock' = [slock EXCEPT ![sess[t]] = t]
    /\ IF ~alive[sess[t]]
       THEN /\ pc' = [pc EXCEPT ![t] = "rep_acquire"]
            /\ UNCHANGED last_used
       ELSE /\ last_used' = [last_used EXCEPT ![sess[t]] = now]
            /\ pc' = [pc EXCEPT ![t] = "write"]
    /\ UNCHANGED <<now, alive, sessions, sess, rsess, csess, sessions_lock, shutdown,
                   key, err, startDead, reaperVars, closeVars, textVars, readerVars, serviceVars>>

\* ask: stdin.write(prompt + "\n"); flush().  On a process that has exited the
\* write raises BrokenPipeError, which ask does not catch: the `with` releases
\* the session lock and the exception reaches the caller.
AskWrite(t) ==
    /\ pc[t] = "write"
    /\ IF alive[sess[t]]
       THEN /\ pc' = [pc EXCEPT ![t] = "read"]
            /\ UNCHANGED <<heapVars, err>>
       ELSE /\ Install(LeaveSessionLock(Heap, t))
            /\ err' = [err EXCEPT ![t] = "io"]
            /\ pc' = [pc EXCEPT ![t] = "raised"]
    /\ UNCHANGED <<now, sessions_lock, shutdown, key, startDead,
                   reaperVars, closeVars, textVars, readerVars, serviceVars>>

\* ask: _read_response returns, last_used is set again, the text is returned
\* and the session lock released.
AskReadDone(t) ==
    /\ pc[t] = "read"
    /\ Install(LeaveSessionLock([Heap EXCEPT !.last_used[sess[t]] = now], t))
    /\ pc' = [pc EXCEPT ![t] = "returned"]
    /\ UNCHANGED <<now, sessions_lock, shutdown, key, err, startDead,
                   reaperVars, closeVars, textVars, readerVars, serviceVars>>

\* _replace_session: `with self._sessions_lock:` (the session lock is held)
ReplaceAcquire(t) ==
    /\ pc[t] = "rep_acquire"
    /\ sessions_lock = None
    /\ sessions_lock' = t
    /\ pc' = [pc EXCEPT ![t] = "rep_body"]
    /\ UNCHANGED <<now, heapVars, shutdown, key, err, startDead,
                   reaperVars, closeVars, textVars, readerVars, serviceVars>>

\* _replace_session under the registry lock: the existing session's process is
\* terminated, a new one spawned and installed, the registry lock released;
\* then ask's `continue` leaves the `with session.lock` block.  A failed spawn
\* raises through both `with` blocks.
ReplaceSession(t) ==
    /\ pc[t] = "rep_body"
    /\ sessions_lock' = LeaveRegistryLock(t)
    /\ LET k == key[t]
           existing == sessions[k]
           al == IF existing # None THEN TerminateProcess(existing) ELSE alive
       IN  \E ok \in BOOLEAN :
               IF ok
               THEN /\ Install(LeaveSessionLock(
                                [Heap EXCEPT !.alive = [al EXCEPT ![NewProc] = TRUE],
                                             !.last_used[NewProc] = now,
                                             !.sessions[k] = NewProc], t))
                    /\ pc' = [pc EXCEPT ![t] = "goc"]
                    /\ UNCHANGED err
               ELSE /\ Install(LeaveSessionLock([Heap EXCEPT !.alive = al], t))
                    /\ pc' = [pc EXCEPT ![t] = "raised"]
                    /\ err' = [err EXCEPT ![t] = "spawn"]
    /\ UNCHANGED <<now, shutdown, key, startDead, reaperVars, closeVars, textVars, readerVars, serviceVars>>

\* the caller has its answer (or its exception); the thread is free again
AskFinish(t) ==
    /\ pc[t] \in {"returned", "raised"}
    /\ pc' = [pc EXCEPT ![t] = "idle"]
    /\ key' = [key EXCEPT ![t] = None]
    /\ err' = [err EXCEPT ![t] = "none"]
    /\ startDead' = [startDead EXCEPT ![t] = FALSE]
    /\ UNCHANGED <<now, heapVars, sessions_lock, shutdown, reaperVars, closeVars, textVars, readerVars, serviceVars>>

AskStep(t) ==
    \/ \E k \in Keys : AskCall(t, k)
    \/ GetOrCreateSession(t)
    \/ AskLockSession(t)
    \/ AskWrite(t)
    \/ AskReadDone(t)
    \/ ReplaceAcquire(t)
    \/ ReplaceSession(t)
    \/ AskFinish(t)

\* ------------------------------------------------------------- _cleanup_worker
\* `self._shutdown_event.wait(interval)` times out: a tick starts, now = time.time()
CleanupWake ==
    /\ rpc = "r_wait"
    /\ ~shutdown
    /\ rnow' = now
    /\ rpc' = "r_scan"
    /\ UNCHANGED <<now, heapVars, sessions_lock, shutdown, askVars, stale, closeVars, textVars, readerVars, serviceVars>>

\* the wait returns True: the loop ends
CleanupExit ==
    /\ rpc = "r_wait"
    /\ shutdown
    /\ rpc' = "r_exit"
    /\ UNCHANGED <<now, heapVars, sessions_lock, shutdown, askVars, rnow, stale,
                   closeVars, textVars, readerVars, serviceVars>>

\* where the tick goes on: the next stale key, or the wait (`now` is dead then)
CleanupNext(left) == IF left = {} THEN "r_wait" ELSE "r_pop"

\* the scan of the registry under the registry lock
CleanupScan ==
    /\ rpc = "r_scan"
    /\ sessions_lock = None
    /\ stale' = {k \in Keys : sessions[k] # None /\ IsStale(sessions[k], rnow)}
    /\ rpc' = CleanupNext(stale')
    /\ rnow' = IF stale' = {} THEN 0 ELSE rnow
    /\ UNCHANGED <<now, heapVars, sessions_lock, shutdown, askVars, closeVars, textVars, readerVars, serviceVars>>

\* _terminate_session(session_key) for the next stale key: the pop under the lock
CleanupPop ==
    /\ rpc = "r_pop"
    /\ sessions_lock = None
    /\ \E k \in stale :
        /\ stale' = stale \ {k}
        /\ Install([Heap EXCEPT !.rsess = sessions[k], !.sessions[k] = None])
        /\ rpc' = IF sessions[k] # None THEN "r_term" ELSE CleanupNext(stale')
        /\ rnow' = IF rpc' = "r_wait" THEN 0 ELSE rnow
    /\ UNCHANGED <<now, sessions_lock, shutdown, askVars, closeVars, textVars, readerVars, serviceVars>>

\* _terminate_session: `if session: self._terminate_process(session.process)`
CleanupTerminate ==
    /\ rpc = "r_term"
    /\ Install([Heap EXCEPT !.alive = TerminateProcess(rsess), !.rsess = None])
    /\ rpc' = CleanupNext(stale)
    /\ rnow' = IF stale = {} THEN 0 ELSE rnow
    /\ UNCHANGED <<now, sessions_lock, shutdown, askVars, stale, closeVars, textVars, readerVars, serviceVars>>

CleanupWorker ==
    \/ CleanupWake
    \/ CleanupExit
    \/ CleanupScan
    \/ CleanupPop
    \/ CleanupTerminate

\* ------------------------------------------------------------- close
\* close(): self._shutdown_event.set()
CloseCall ==
    /\ cpc = "c_idle"
    /\ shutdown' = TRUE
    /\ cpc' = "c_join"
    /\ UNCHANGED <<now, heapVars, sessions_lock, askVars, reaperVars, ckeys, textVars, readerVars, serviceVars>>

\* self._cleanup_thread.join(timeout=2): the thread has ended, or it is in the
\* middle of a tick and the two seconds pass.
CloseJoin ==
    /\ cpc = "c_join"
    /\ rpc # "r_wait"
    /\ cpc' = "c_keys"
    /\ UNCHANGED <<now, heapVars, sessions_lock, shutdown, askVars, reaperVars, ckeys, textVars, readerVars, serviceVars>>

CloseNext(left) == IF left = {} THEN "c_done" ELSE "c_pop"

\* keys = list(self._sessions.keys()) under the registry lock
CloseKeys ==
    /\ cpc = "c_keys"
    /\ sessions_lock = None
    /\ ckeys' = {k \in Keys : sessions[k] # None}
    /\ cpc' = CloseNext(ckeys')
    /\ UNCHANGED <<now, heapVars, sessions_lock, shutdown, askVars, reaperVars, textVars, readerVars, serviceVars>>

\* _terminate_session(key): the pop under the lock
ClosePop ==
    /\ cpc = "c_pop"
    /\ sessions_lock = None
    /\ \E k \in ckeys :
        /\ ckeys' = ckeys \ {k}
        /\ Install([Heap EXCEPT !.csess = sessions[k], !.sessions[k] = None])
        /\ cpc' = IF sessions[k] # None THEN "c_term" ELSE CloseNext(ckeys')
    /\ UNCHANGED <<now, sessions_lock, shutdown, askVars, reaperVars, textVars, readerVars, serviceVars>>

\* _terminate_session: _terminate_process(session.process)
CloseTerminate ==
    /\ cpc = "c_term"
    /\ Install([Heap EXCEPT !.alive = TerminateProcess(csess), !.csess = None])
    /\ cpc' = CloseNext(ckeys)
    /\ UNCHANGED <<now, sessions_lock, shutdown, askVars, reaperVars, ckeys, textVars, readerVars, serviceVars>>

Close ==
    \/ CloseCall
    \/ CloseJoin
    \/ CloseKeys
    \/ ClosePop
    \/ CloseTerminate

\* ------------------------------------------------------------- specification
Next ==
    \/ Tick
    \/ \E p \in Procs : ProcessExit(p)
    \/ \E t \in Threads : AskStep(t)
    \/ CleanupWorker
    \/ Close

Spec == Init /\ [][Next]_vars

\* Every thread inside ask is scheduled again and again, and gets a lock that
\* is free again and again.
FairSpec == Spec /\ \A t \in Threads : SF_vars(AskStep(t))

\* ------------------------------------------------------------- the text of the answer
\* The last two lines of ask's `with` block on their own: _read_response hands
\* back some text, ask returns `output.strip() or "(no response)"`.
TextRead ==
    /\ tx_pc = "idle"
    /\ \E o \in Outputs : tx_out' = o
    /\ tx_pc' = "read"
    /\ UNCHANGED <<managerVars, readerVars, serviceVars, tx_ret>>

TextReturn ==
    /\ tx_pc = "read"
    /\ tx_ret' = AskResult(tx_out)
    /\ tx_pc' = "returned"
    /\ UNCHANGED <<managerVars, readerVars, serviceVars, tx_out>>

TextNext ==
    \/ TextRead
    \/ TextReturn

TextSpec == Init /\ [][TextNext]_vars

\* ------------------------------------------------------------- _read_response
\* The child writes pieces of text numbered 1, 2, 3, ...; text is the sequence
\* of the numbers of its pieces.  os.read hands over all that is in the pipe;
\* a zero-length read is what a closed and drained stream gives.
\* select() returns at once when the stream is readable (data, or end of
\* file), and not before its timeout otherwise; the statements between two
\* select() calls take no time.

\* select: the stream is readable
Readable == rd_pipe # <<>> \/ rd_closed

\* A slip: new text is put in front of the text read before.
CollateInFront(chunks, data) == data \o chunks

\* chunks.append(...), then "".join(chunks)
Collate(chunks, data) == chunks \o data

\* A slip: a silent poll ends the read, text or no text.
EndsOnAnySilence(chunks) == TRUE

\* `if chunks: break` after an outer poll that found nothing (lines 108-111)
EndsOnSilence(chunks) == chunks # <<>>

\* A slip: every read in the quiet window starts the window again.
QuietDeadlineRestarted(quiet_deadline, t) == t + QuietWindow

\* The quiet-window loop leaves quiet_deadline alone after a read (no
\* assignment in lines 117-124).
QuietDeadlineAfterRead(quiet_deadline, t) == quiet_deadline

\* _read_response(process, timeout_seconds) is called: lines 100-103.  The
\* child may have answered already.
RdStart ==
    /\ rd_pc = "idle"
    /\ rd_deadline' = rd_now + RdTimeout
    /\ rd_chunks' = <<>>
    /\ \E early \in BOOLEAN :
        /\ rd_pipe' = IF early THEN <<1>> ELSE <<>>
        /\ rd_sent' = IF early THEN 1 ELSE 0
    /\ rd_pc' = "outer_check"
    /\ UNCHANGED <<managerVars, textVars, serviceVars, rd_now, rd_quiet, rd_until, rd_closed,
                   rd_eof, rd_at_eof, rd_last, rd_ret>>

\* `return "".join(chunks)`
RdReturn(chunks) ==
    /\ rd_pc' = "returned"
    /\ rd_ret' = chunks

\* `while time.time() < deadline:` and the select call of line 107
OuterCheck ==
    /\ rd_pc = "outer_check"
    /\ IF rd_now < rd_deadline
       THEN /\ rd_until' = rd_now + Min(OuterPoll, Max(MinRemaining, rd_deadline - rd_now))
            /\ rd_pc' = "outer_select"
            /\ UNCHANGED rd_ret
       ELSE /\ RdReturn(rd_chunks)
            /\ UNCHANGED rd_until
    /\ UNCHANGED <<managerVars, textVars, serviceVars, rd_now, rd_deadline, rd_quiet, rd_chunks,
                   rd_pipe, rd_sent, rd_closed, rd_eof, rd_at_eof, rd_last>>

\* the outer select says "ready": lines 112-116
OuterRead ==
    /\ rd_pc = "outer_select"
    /\ Readable
    /\ IF rd_pipe = <<>>
       THEN /\ RdReturn(rd_chunks)
            /\ rd_eof' = TRUE
            /\ rd_at_eof' = IF rd_eof THEN rd_at_eof ELSE rd_chunks
            /\ UNCHANGED <<rd_chunks, rd_pipe, rd_quiet, rd_last>>
       ELSE /\ rd_chunks' = Collate(rd_chunks, rd_pipe)
            /\ rd_pipe' = <<>>
            /\ rd_quiet' = rd_now + QuietWindow
            /\ rd_last' = rd_now
            /\ rd_pc' = "quiet_check"
            /\ UNCHANGED <<rd_eof, rd_at_eof, rd_ret>>
    /\ UNCHANGED <<managerVars, textVars, serviceVars, rd_now, rd_deadline, rd_until, rd_sent, rd_closed>>

\* the outer select times out: lines 108-111
OuterTimeout ==
    /\ rd_pc = "outer_select"
    /\ ~Readable
    /\ rd_now >= rd_until
    /\ IF EndsOnSilence(rd_chunks)
       THEN RdReturn(rd_chunks)
       ELSE rd_pc' = "outer_check" /\ UNCHANGED rd_ret
    /\ UNCHANGED <<managerVars, textVars, serviceVars, rd_now, rd_deadline, rd_quiet, rd_until,
                   rd_chunks, rd_pipe, rd_sent, rd_closed, rd_eof, rd_at_eof, rd_last>>

\* `while time.time() < quiet_deadline:` and the select call of line 118
QuietCheck ==
    /\ rd_pc = "quiet_check"
    /\ IF rd_now < rd_quiet
       THEN /\ rd_until' = rd_now + InnerPoll
            /\ rd_pc' = "quiet_select"
       ELSE /\ rd_pc' = "outer_check"
            /\ UNCHANGED rd_until
    /\ UNCHANGED <<managerVars, textVars, serviceVars, rd_now, rd_deadline, rd_quiet, rd_chunks,
                   rd_pipe, rd_sent, rd_closed, rd_eof, rd_at_eof, rd_last, rd_ret>>

\* the quiet-window select says "ready": lines 121-124.  A zero-length read
\* breaks out of the quiet-window loop only; the outer loop goes on.
QuietRead ==
    /\ rd_pc = "quiet_select"
    /\ Readable
    /\ IF rd_pipe = <<>>
       THEN /\ rd_pc' = "outer_check"
            /\ rd_eof' = TRUE
            /\ rd_at_eof' = IF rd_eof THEN rd_at_eof ELSE rd_chunks
            /\ UNCHANGED <<rd_chunks, rd_pipe, rd_quiet, rd_last>>
       ELSE /\ rd_chunks' = Collate(rd_chunks, rd_pipe)
            /\ rd_pipe' = <<>>
            /\ rd_quiet' = QuietDeadlineAfterRead(rd_quiet, rd_now)
            /\ rd_last' = rd_now
            /\ rd_pc' = "quiet_check"
            /\ UNCHANGED <<rd_eof, rd_at_eof>>
    /\ UNCHANGED <<managerVars, textVars, serviceVars, rd_now, rd_deadline, rd_until, rd_sent,
                   rd_closed, rd_ret>>

\* the quiet-window select times out: lines 119-120
QuietTimeout ==
    /\ rd_pc = "quiet_select"
    /\ ~Readable
    /\ rd_now >= rd_until
    /\ rd_pc' = "quiet_check"
    /\ UNCHANGED <<managerVars, textVars, serviceVars, rd_now, rd_deadline, rd_quiet, rd_until,
                   rd_chunks, rd_pipe, rd_sent, rd_closed, rd_eof, rd_at_eof, rd_last, rd_ret>>

ReaderStep ==
    \/ RdStart
    \/ OuterCheck
    \/ OuterRead
    \/ OuterTimeout
    \/ QuietCheck
    \/ QuietRead
    \/ QuietTimeout

\* The reader waits in a select() that is not ready and has not timed out.
Waiting ==
    /\ rd_pc \in {"outer_select", "quiet_select"}
    /\ ~Readable
    /\ rd_now < rd_until

\* 0.05 s pass, while the reader waits in select() or after it has returned;
\* the child may write its next piece of text at the new moment.
RdTick(arrive) ==
    /\ Waiting \/ rd_pc = "returned"
    /\ rd_now < RdMaxTime
    /\ rd_now' = rd_now + 1
    /\ IF arrive
       THEN /\ ~rd_closed
            /\ rd_sent' = rd_sent + 1
            /\ rd_pipe' = Append(rd_pipe, rd_sent + 1)
       ELSE UNCHANGED <<rd_sent, rd_pipe>>
    /\ UNCHANGED <<managerVars, textVars, serviceVars, rd_pc, rd_deadline, rd_quiet, rd_until,
                   rd_chunks, rd_closed, rd_eof, rd_at_eof, rd_last, rd_ret>>

\* the child closes the stream (it exits)
StreamClose ==
    /\ rd_pc \notin {"idle", "returned"}
    /\ ~rd_closed
    /\ rd_closed' = TRUE
    /\ UNCHANGED <<managerVars, textVars, serviceVars, rd_pc, rd_now, rd_deadline, rd_quiet, rd_until,
                   rd_chunks, rd_pipe, rd_sent, rd_eof, rd_at_eof, rd_last, rd_ret>>

ReaderNext ==
    \/ ReaderStep
    \/ \E arrive \in BOOLEAN : RdTick(arrive)
    \/ StreamClose

ReaderSpec == Init /\ [][ReaderNext]_vars

\* The reader's thread is scheduled and the clock goes on.
ReaderFairSpec ==
    /\ ReaderSpec
    /\ WF_vars(ReaderStep)
    /\ WF_vars(\E arrive \in BOOLEAN : RdTick(arrive))

\* ------------------------------------------------------------- handle_incoming_event
\* src/bridge/main.py, BridgeService.handle_incoming_event, with the two
\* adapters as its environment: parse_event hands back some event, ask returns
\* some text or raises, send_message returns a status code and a payload.
SenderIds == {"", "user-1", "bot-1"}
Texts == {<<>>, <<" ">>, <<"\t", "\n">>, <<"h", "i">>, <<" ", "h", " ", "i", "\n">>}
Events ==
    [event_id : {"evt-1"}, is_self_message : BOOLEAN, sender_id : SenderIds, text : Texts]
Responses == {<<"o", "k">>, NoResponse}
SendStatuses == {200, 500, 0}
SendPayloads == {<<>>, <<"{", "}">>}
PreviewLen == 500        \* response_payload[:500]

\* s[:n]
Prefix(s, n) == SubSeq(s, 1, Min(Len(s), n))

\* A slip: only the empty text counts as blank.
IsBlankEmptyOnly(text) == text = <<>>

\* `not event.text.strip()`
IsBlank(text) == Strip(text) = <<>>

\* event = self.qq_adapter.parse_event(payload)
HandleParse ==
    /\ hd_pc = "idle"
    /\ \E e \in Events : hd_event' = e
    /\ hd_pc' = "parsed"
    /\ UNCHANGED <<managerVars, textVars, readerVars, configVars,
                   hd_asks, hd_sends, hd_resp, hd_result>>

\* `if event.is_self_message: return {...}`
HandleIgnoreSelf ==
    /\ hd_pc = "parsed"
    /\ hd_event.is_self_message
    /\ hd_result' = [status |-> "ignored", reason |-> "self_message",
                     event_id |-> hd_event.event_id]
    /\ hd_pc' = "done"
    /\ UNCHANGED <<managerVars, textVars, readerVars, configVars,
                   hd_event, hd_asks, hd_sends, hd_resp>>

\* `if not event.sender_id or not event.text.strip(): return {...}`
HandleIgnoreEmpty ==
    /\ hd_pc = "parsed"
    /\ ~hd_event.is_self_message
    /\ hd_event.sender_id = "" \/ IsBlank(hd_event.text)
    /\ hd_result' = [status |-> "ignored", reason |-> "empty_sender_or_text",
                     event_id |-> hd_event.event_id]
    /\ hd_pc' = "done"
    /\ UNCHANGED <<managerVars, textVars, readerVars, configVars,
                   hd_event, hd_asks, hd_sends, hd_resp>>

\* claude_response = self.claude_adapter.ask(session_key, event.text): ask
\* returns some text, or raises (handle_incoming_event has no handler)
HandleAsk ==
    /\ hd_pc = "parsed"
    /\ ~hd_event.is_self_message
    /\ ~(hd_event.sender_id = "" \/ IsBlank(hd_event.text))
    /\ hd_asks' = Append(hd_asks, <<hd_event.sender_id, hd_event.text>>)
    /\ \E raises \in BOOLEAN :
        IF raises
        THEN /\ hd_pc' = "raised"
             /\ UNCHANGED hd_resp
        ELSE /\ hd_pc' = "asked"
             /\ \E r \in Responses : hd_resp' = r
    /\ UNCHANGED <<managerVars, textVars, readerVars, configVars,
                   hd_event, hd_sends, hd_result>>

\* status_code, response_payload = self.qq_adapter.send_message(event,
\* claude_response), and the `return {"status": "ok", ...}`
HandleSend ==
    /\ hd_pc = "asked"
    /\ hd_sends' = Append(hd_sends, <<hd_event, hd_resp>>)
    /\ \E status_code \in SendStatuses, response_payload \in SendPayloads :
        hd_result' = [status |-> "ok",
                      event_id |-> hd_event.event_id,
                      session_key |-> hd_event.sender_id,
                      qq_send_status |-> status_code,
                      qq_send_response |-> Prefix(response_payload, PreviewLen)]
    /\ hd_pc' = "done"
    /\ UNCHANGED <<managerVars, textVars, readerVars, configVars,
                   hd_event, hd_asks, hd_resp>>

HandlerNext ==
    \/ HandleParse
    \/ HandleIgnoreSelf
    \/ HandleIgnoreEmpty
    \/ HandleAsk
    \/ HandleSend

HandlerSpec == Init /\ [][HandlerNext]_vars

\* ------------------------------------------------------------- BridgeConfig.from_env
\* src/bridge/config.py.  A string is a sequence of one-character strings; an
\* environment variable is set to a string, or not set.
Unset == [set |-> FALSE, value |-> <<>>]
SetTo(s) == [set |-> TRUE, value |-> s]

\* the environments from_env is run in
EnvChoices ==
    [QQ_APP_ID : {Unset, SetTo(<<>>), SetTo(<<" ", "a", "p", "p", " ">>)},
     QQ_BOT_APP_ID : {Unset, SetTo(<<"b", "o", "t">>)},
     QQ_APP_SECRET : {Unset, SetTo(<<"s">>)},
     QQ_BOT_TOKEN : {Unset, SetTo(<<"t">>)},
     QQ_CALLBACK_SECRET : {Unset},
     QQ_API_BASE_URL : {Unset, SetTo(<<" ">>)},
     CLAUDE_CMD : {Unset, SetTo(<<" ">>), SetTo(<<"c", " ", "-", "p">>)},
     CLAUDE_COMMAND : {Unset, SetTo(<<"k", " ", " ", "-", "-", "q">>)},
     SESSION_TIMEOUT_SECONDS : {Unset, SetTo(<<"0">>), SetTo(<<" ", "6", "0">>),
                                SetTo(<<"x">>), SetTo(<<"-", "5">>)},
     CLAUDE_SESSION_IDLE_TIMEOUT : {Unset, SetTo(<<"9", "9">>)}]

DefaultBaseUrl == <<"h", "t", "t", "p", "s", ":", "/", "/", "a", "p", "i", ".", "s", "g", "r", "o", "u", "p", ".", "q", "q", ".", "c", "o", "m">>
DefaultClaudeCmd == <<"c", "l", "a", "u", "d", "e">>
DefaultSessionTimeout == <<"1", "8", "0", "0">>

\* `os.getenv(name) or default`: None and the empty string both give way
OrElse(v, default) == IF v.set /\ v.value # <<>> THEN v.value ELSE default

\* str.split(): the words between runs of whitespace
RECURSIVE Split(_)
Split(s) ==
    LET t == LStrip(s)
    IN  IF t = <<>> THEN <<>>
        ELSE LET ends == {i \in 1..Len(t) : IsSpace(t[i])}
                 n == IF ends = {} THEN Len(t) + 1
                      ELSE CHOOSE i \in ends : \A j \in ends : i <= j
             IN  <<SubSeq(t, 1, n - 1)>> \o Split(SubSeq(t, n + 1, Len(t)))

Digits == <<"0", "1", "2", "3", "4", "5", "6", "7", "8", "9">>
IsDigit(c) == \E d \in 1..10 : Digits[d] = c
DigitValue(c) == (CHOOSE d \in 1..10 : Digits[d] = c) - 1

RECURSIVE Number(_)
Number(s) == IF s = <<>> THEN 0 ELSE 10 * Number(SubSeq(s, 1, Len(s) - 1)) + DigitValue(s[Len(s)])

\* int(s): blanks around, a sign, digits; anything else is a ValueError
ParseInt(s) ==
    LET t == Strip(s)
        signed == t # <<>> /\ t[1] \in {"+", "-"}
        digits == IF signed THEN Tail(t) ELSE t
    IN  IF digits # <<>> /\ \A i \in 1..Len(digits) : IsDigit(digits[i])
        THEN [ok |-> TRUE,
              value |-> IF signed /\ t[1] = "-" THEN 0 - Number(digits) ELSE Number(digits)]
        ELSE [ok |-> FALSE, value |-> 0]

\* lines 28-29
ClaudeCmd(env) == Split(Strip(OrElse(env.CLAUDE_CMD, DefaultClaudeCmd)))

\* line 31
SessionTimeoutRaw(env) == Strip(OrElse(env.SESSION_TIMEOUT_SECONDS, DefaultSessionTimeout))

\* line 22
QqAppId(env) == Strip(OrElse(env.QQ_APP_ID, OrElse(env.QQ_BOT_APP_ID, <<>>)))

\* lines 33-51: the validation errors, in order
ConfigErrors(env) ==
    LET timeout == ParseInt(SessionTimeoutRaw(env))
        Err(cond, name) == IF cond THEN <<name>> ELSE <<>>
    IN  Err(QqAppId(env) = <<>>, "QQ_APP_ID")
        \o Err(Strip(OrElse(env.QQ_APP_SECRET, <<>>)) = <<>>, "QQ_APP_SECRET")
        \o Err(Strip(OrElse(env.QQ_BOT_TOKEN, <<>>)) = <<>>, "QQ_BOT_TOKEN")
        \o Err(Strip(OrElse(env.QQ_API_BASE_URL, DefaultBaseUrl)) = <<>>, "QQ_API_BASE_URL")
        \o Err(ClaudeCmd(env) = <<>>, "CLAUDE_CMD")
        \o Err(~timeout.ok \/ timeout.value <= 0, "SESSION_TIMEOUT_SECONDS")

\* BridgeConfig.from_env(): the config, or the ValueError with its errors
FromEnv(env) ==
    IF ConfigErrors(env) # <<>>
    THEN [status |-> "ValueError", errors |-> ConfigErrors(env)]
    ELSE [status |-> "config",
          qq_app_id |-> QqAppId(env),
          qq_app_secret |-> Strip(OrElse(env.QQ_APP_SECRET, <<>>)),
          qq_bot_token |-> Strip(OrElse(env.QQ_BOT_TOKEN, <<>>)),
          qq_callback_secret |-> Strip(OrElse(env.QQ_CALLBACK_SECRET, <<>>)),
          qq_api_base_url |-> Strip(OrElse(env.QQ_API_BASE_URL, DefaultBaseUrl)),
          claude_cmd |-> ClaudeCmd(env),
          session_timeout_seconds |-> ParseInt(SessionTimeoutRaw(env)).value]

\* the process starts in some environment (load_dotenv included)
ConfigSetEnv ==
    /\ cfg_pc = "idle"
    /\ \E env \in EnvChoices : cfg_env' = env
    /\ cfg_pc' = "env"
    /\ UNCHANGED <<managerVars, textVars, readerVars, handlerVars, cfg_result>>

\* BridgeConfig.from_env()
ConfigFromEnv ==
    /\ cfg_pc = "env"
    /\ cfg_result' = FromEnv(cfg_env)
    /\ cfg_pc' = "done"
    /\ UNCHANGED <<managerVars, textVars, readerVars, handlerVars, cfg_env>>

ConfigNext ==
    \/ ConfigSetEnv
    \/ ConfigFromEnv

ConfigSpec == Init /\ [][ConfigNext]_vars

\* ------------------------------------------------------------- claims
\* The ask threads inside the write-prompt-then-read-response cycle on object p.
InCycle(p) == {t \in Threads : sess[t] = p /\ pc[t] \in {"write", "read"}}

\* C1: for any child process, at most one ask call at a time is inside its
\* write-then-read cycle on that process, and that call holds the lock of the
\* process's session; no two threads use the same process's pipes at once.
C1_ProcessExclusive ==
    \A p \in Procs :
        /\ Cardinality(InCycle(p)) <= 1
        /\ \A t \in InCycle(p) : slock[p] = t

\* C1's case: one call reads from a process while a second call, resolved to
\* the same process, waits for the session lock.
C1_Witness ==
    \E t1, t2 \in Threads :
        /\ t1 # t2
        /\ pc[t1] = "read"
        /\ pc[t2] = "lock_session"
        /\ sess[t1] = sess[t2]
        /\ alive[sess[t1]]

\* C2: for any session key, at most one ask call for that key is between
\* writing its prompt and returning its response, also when the key's session
\* is replaced or evicted meanwhile.  (Counted here: only the calls whose
\* process is still running.)
C2_KeyExclusive ==
    \A k \in Keys :
        Cardinality({t \in Threads : key[t] = k /\ pc[t] = "read" /\ alive[sess[t]]}) <= 1

\* The session the cleanup thread pops in this step, if it pops one.
CleanupPops(p) ==
    /\ rpc = "r_pop"
    /\ rpc' = "r_term"
    /\ \E k \in stale \ stale' : sessions[k] = p

\* C3: the cleanup thread never removes a session from the registry, nor
\* terminates its process, while an ask call holds the session's lock inside
\* its write/read cycle.
C3_NoEvictionInFlight ==
    [][/\ \A p \in Procs : CleanupPops(p) => InCycle(p) = {}
       /\ (rpc = "r_term" /\ rpc' # "r_term") => InCycle(rsess) = {}]_vars

\* C4: an ask whose registry lookup found a session with an exited process
\* returns text, unless spawning fails: it raises no other error.
C4_CrashRecovery ==
    \A t \in Threads : (startDead[t] /\ pc[t] = "raised") => err[t] = "spawn"

\* C5: whenever the cleanup thread removes a session, that session's last_used
\* is older than the idle timeout at the moment of the removal.
C5_OnlyIdleEvicted ==
    [][\A p \in Procs : CleanupPops(p) => (now - last_used[p]) > IdleTimeout]_vars

\* C6: at the end of a cleanup tick that read the clock as rnow, with no
\* shutdown signalled, no session that was idle at rnow and has not been used
\* since is left: none is in the registry and none has a live process.
C6_IdleEvictedByTickEnd ==
    [][(rpc # "r_wait" /\ rpc' = "r_wait" /\ ~shutdown')
        => \A p \in Procs :
              ((\E k \in Keys : sessions'[k] = p) \/ alive'[p])
                  => (rnow - last_used'[p]) <= IdleTimeout]_vars

\* C6's case: the cleanup thread has popped the last session it found idle and
\* is about to terminate its live process.
C6_Witness ==
    /\ rpc = "r_term"
    /\ ~shutdown
    /\ stale = {}
    /\ alive[rsess]
    /\ (rnow - last_used[rsess]) > IdleTimeout
    /\ \A k \in Keys : sessions[k] = None

\* C7: every ask call ends: it returns text or raises.
C7_AskTerminates ==
    \A t \in Threads : (pc[t] = "goc") ~> (pc[t] \in {"returned", "raised"})

\* C8: a write that fails because the process exited after the liveness check
\* is treated like a dead process (the session is replaced and the call
\* retried); the error does not reach the caller on its first occurrence.
C8_WriteFailureRetried ==
    [][\A t \in Threads :
          (pc[t] = "write" /\ ~alive[sess[t]] /\ pc'[t] # "write")
              => pc'[t] = "rep_acquire"]_vars

\* C9: a failed spawn ends the ask call at once: the call raises, the thread
\* holds neither the registry lock nor a session lock, nothing new is
\* installed under the key (what is registered there was there before and its
\* process is not alive), no process was started, and the raised call makes
\* no further step but its return to the caller.
C9_SpawnFailureFatal ==
    [][\A t \in Threads :
          /\ (err[t] # "spawn" /\ err'[t] = "spawn") =>
                /\ pc'[t] = "raised"
                /\ sessions_lock' # t
                /\ \A p \in Procs : slock'[p] # t
                /\ sess'[t] = None
                /\ sessions'[key[t]] # None =>
                      (sessions[key[t]] # None /\ ~alive'[sessions'[key[t]]])
                /\ Cardinality({p \in Procs : alive'[p]})
                      <= Cardinality({p \in Procs : alive[p]})
          /\ (pc[t] = "raised" /\ pc'[t] # "raised") => pc'[t] = "idle"]_vars

\* C9's case: a call has raised the spawn failure while a session (with an
\* exited process) is registered under its key.
C9_Witness ==
    \E t \in Threads :
        /\ pc[t] = "raised"
        /\ err[t] = "spawn"
        /\ sessions[key[t]] # None

AllSpace(s) == \A i \in 1..Len(s) : IsSpace(s[i])

\* r is o without its leading and trailing whitespace, and is not empty
TrimOf(o, r) ==
    \E i, j \in 1..Len(o) :
        /\ i <= j
        /\ r = SubSeq(o, i, j)
        /\ ~IsSpace(o[i])
        /\ ~IsSpace(o[j])
        /\ \A m \in 1..(i - 1) : IsSpace(o[m])
        /\ \A m \in (j + 1)..Len(o) : IsSpace(o[m])

\* C10 as amended: ask never returns the empty text; its result is the
\* reader's output without leading and trailing whitespace, and the
\* placeholder whenever that is empty.
C10_ResultTrimmedOrPlaceholder ==
    tx_pc = "returned" =>
        /\ tx_ret # <<>>
        /\ AllSpace(tx_out) => tx_ret = NoResponse
        /\ ~AllSpace(tx_out) => TrimOf(tx_out, tx_ret)

\* C10 as stated: moreover the result is the placeholder exactly when the
\* trimmed output is empty.
C10_PlaceholderExactly ==
    tx_pc = "returned" =>
        /\ tx_ret # <<>>
        /\ AllSpace(tx_out) => tx_ret = NoResponse
        /\ ~AllSpace(tx_out) => TrimOf(tx_out, tx_ret)
        /\ tx_ret = NoResponse <=> AllSpace(tx_out)

\* C10's case: the stream closed with zero bytes (or the deadline passed with
\* no data) and ask returned the placeholder.
C10_Witness ==
    /\ tx_pc = "returned"
    /\ tx_out = <<>>
    /\ tx_ret = NoResponse

\* C11: at the moment close() returns, the registry is empty and no child
\* process of the manager is alive, also with ask calls in progress.
C11_CloseLeavesNothing ==
    [][(cpc # "c_done" /\ cpc' = "c_done")
        => /\ \A k \in Keys : sessions'[k] = None
           /\ \A p \in Procs : ~alive'[p]]_vars

\* C12: once the reader has read a first chunk, a piece of text that arrives
\* less than the quiet window after the last read chunk, and before the
\* overall deadline, finds the reader still reading: it is collated into the
\* response.
C12_QuietWindowCollation ==
    [][(/\ rd_sent' = rd_sent + 1
        /\ rd_chunks # <<>>
        /\ rd_now' - rd_last < QuietWindow
        /\ rd_now' < rd_deadline)
        => rd_pc # "returned"]_vars

\* C13: _read_response always returns, whatever the stream does, also against
\* a stream that goes on writing and never closes; what it returns is the text
\* accumulated so far.
C13_ReaderTerminates ==
    (rd_pc = "outer_check") ~> (rd_pc = "returned" /\ rd_ret = rd_chunks)

\* C13's case: the deadline has passed on an open stream that wrote a piece
\* of text at every moment, and the reader has returned them.
C13_Witness ==
    /\ rd_pc = "returned"
    /\ ~rd_closed
    /\ rd_now >= rd_deadline
    /\ rd_sent >= rd_now
    /\ Len(rd_ret) >= RdTimeout

\* C14's condition, in its own words: not a self message, a sender id that is
\* not empty, a text that is not blank.
Routable(e) == ~e.is_self_message /\ e.sender_id # "" /\ ~AllSpace(e.text)

\* C14: an event is routed iff it is routable.  Then ask is called exactly
\* once, with (sender_id, text), and, ask having returned, send_message exactly
\* once with the same event and ask's result, after ask; the status is "ok"
\* and session_key is the sender id.  Otherwise neither is called and the
\* status is "ignored", with reason self_message before empty_sender_or_text.
C14_RoutedIffRoutable ==
    /\ Len(hd_sends) <= Len(hd_asks)
    /\ hd_pc = "asked" => hd_sends = <<>>
    /\ hd_pc \in {"asked", "raised"} =>
          Routable(hd_event) /\ hd_asks = << <<hd_event.sender_id, hd_event.text>> >>
    /\ hd_pc = "raised" => hd_sends = <<>>
    /\ hd_pc = "done" =>
          IF Routable(hd_event)
          THEN /\ hd_asks = << <<hd_event.sender_id, hd_event.text>> >>
               /\ hd_sends = << <<hd_event, hd_resp>> >>
               /\ hd_result.status = "ok"
               /\ hd_result.session_key = hd_event.sender_id
          ELSE /\ hd_asks = <<>>
               /\ hd_sends = <<>>
               /\ hd_result.status = "ignored"
               /\ hd_result.reason = IF hd_event.is_self_message
                                     THEN "self_message"
                                     ELSE "empty_sender_or_text"

\* C14's case: a routable event whose text has blanks around it has been
\* answered.
C14_Witness ==
    /\ hd_pc = "done"
    /\ hd_result.status = "ok"
    /\ hd_event.text # Strip(hd_event.text)
    /\ Len(hd_sends) = 1

\* C15: with QQ_BOT_APP_ID, CLAUDE_COMMAND and CLAUDE_SESSION_IDLE_TIMEOUT set
\* (the secret and the token too) and QQ_APP_ID, CLAUDE_CMD and
\* SESSION_TIMEOUT_SECONDS unset, from_env gives a config whose qq_app_id is
\* QQ_BOT_APP_ID, whose claude_cmd is the words of CLAUDE_COMMAND and whose
\* session_timeout_seconds is CLAUDE_SESSION_IDLE_TIMEOUT.
C15_AliasesAccepted ==
    (/\ cfg_pc = "done"
     /\ cfg_env.QQ_BOT_APP_ID.set /\ cfg_env.CLAUDE_COMMAND.set
     /\ cfg_env.CLAUDE_SESSION_IDLE_TIMEOUT.set
     /\ cfg_env.QQ_APP_SECRET.set /\ cfg_env.QQ_BOT_TOKEN.set
     /\ ~cfg_env.QQ_APP_ID.set /\ ~cfg_env.CLAUDE_CMD.set
     /\ ~cfg_env.SESSION_TIMEOUT_SECONDS.set
     /\ ~cfg_env.QQ_API_BASE_URL.set)
    => /\ cfg_result.status = "config"
       /\ cfg_result.qq_app_id = cfg_env.QQ_BOT_APP_ID.value
       /\ cfg_result.claude_cmd = Split(cfg_env.CLAUDE_COMMAND.value)
       /\ cfg_result.session_timeout_seconds
              = ParseInt(cfg_env.CLAUDE_SESSION_IDLE_TIMEOUT.value).value

\* C16: no thread waits for the termination of a process while it holds the
\* registry lock: the step a thread takes under the registry lock
\* (_replace_session's body) finds no live process to terminate.
C16_NoTerminationUnderRegistryLock ==
    [][\A t \in Threads :
          (sessions_lock = t /\ pc'[t] # pc[t])
              => ~(sessions[key[t]] # None /\ alive[sessions[key[t]]])]_vars

C18_ShutdownAwaited ==
    cpc \in {"c_keys", "c_pop", "c_term"} => rpc = "r_exit"

\* C19: once the clock has reached the overall deadline, the reader starts no
\* further poll of the stream, in the outer loop or in the quiet-window loop.
C19_DeadlineIsHard ==
    [][(rd_pc' \in {"outer_select", "quiet_select"} /\ rd_pc' # rd_pc)
        => rd_now < rd_deadline]_vars

\* The text 1, 2, ..., n: the pieces the child wrote, in the order it wrote them.
InOrder(s) == \A i \in 1..Len(s) : s[i] = i

\* C20: after a zero-length read the reader appends nothing more, and what it
\* returns is the text read before it, in the order it was read.
C20_StopsAtClose ==
    rd_eof =>
        /\ rd_chunks = rd_at_eof
        /\ InOrder(rd_at_eof)
        /\ rd_pc = "returned" => rd_ret = rd_at_eof

\* C20's case: the stream closed inside the quiet window, after two reads, and
\* the reader has returned.
C20_Witness ==
    /\ rd_pc = "returned"
    /\ rd_eof
    /\ rd_last > 0
    /\ rd_now < rd_quiet
    /\ Len(rd_ret) >= 2

\* C21: the reader returns with nothing accumulated only when the stream has
\* closed or the overall deadline has passed.  An outer poll that finds no
\* data sends it back to wait while nothing has been collected, and ends the
\* read, with the text collected, once something has been.
C21_EmptyOnlyOnCloseOrDeadline ==
    [][/\ (rd_pc' = "returned" /\ rd_ret' = <<>>)
            => (rd_eof' \/ rd_now' >= rd_deadline')
       /\ (rd_pc = "outer_select" /\ ~Readable /\ rd_pc' # rd_pc)
            => IF rd_chunks = <<>>
               THEN rd_pc' = "outer_check"
               ELSE rd_pc' = "returned" /\ rd_ret' = rd_chunks]_vars

\* C21's case: the child wrote nothing and left the stream open; the reader
\* polled until the deadline and returned the empty text.
C21_Witness ==
    /\ rd_pc = "returned"
    /\ rd_ret = <<>>
    /\ ~rd_eof
    /\ ~rd_closed
    /\ rd_now >= rd_deadline

\* C22: _replace_session, called by an ask that found its own session's
\* process dead, terminates no live process that another ask has installed
\* under the key meanwhile, and no process on which another ask is inside its
\* write/read cycle.
C22_ReplaceOnlyTheDead ==
    [][\A t \in Threads :
          (pc[t] = "rep_body" /\ pc'[t] # "rep_body" /\ sessions[key[t]] # None)
              => /\ sessions[key[t]] # sess[t] => ~alive[sessions[key[t]]]
                 /\ alive[sessions[key[t]]] => InCycle(sessions[key[t]]) = {}]_vars

\* C23: every live child process is the process of a session registered
\* under a key, or is about to be terminated by the thread that took its
\* session out of the registry (the cleanup thread, or close()).
C23_NoOrphans ==
    \A p \in Procs :
        alive[p] =>
            \/ \E k \in Keys : sessions[k] = p
            \/ rpc = "r_term" /\ rsess = p
            \/ cpc = "c_term" /\ csess = p

\* C23's case: close() has taken a session with a live process out of the
\* registry and is about to terminate it, while an ask call still uses it.
C23_Witness ==
    /\ cpc = "c_term"
    /\ alive[csess]
    /\ \A k \in Keys : sessions[k] # csess
    /\ \E t \in Threads : sess[t] = csess /\ pc[t] = "read"

\* C24: the two locks cannot deadlock.  The holder of the registry lock waits
\* for no lock (it is inside _replace_session's block and can go on); the
\* holder of a session lock is inside its `with session.lock:` block and can
\* go on, or waits for the registry lock only, which another thread holds.
\* So every chain of threads waiting for locks ends in a thread that can go on.
C24_DeadlockFree ==
    /\ \A t \in Threads :
          sessions_lock = t => (pc[t] = "rep_body" /\ ENABLED AskStep(t))
    /\ \A p \in Procs :
          slock[p] # None =>
              /\ sess[slock[p]] = p
              /\ \/ ENABLED AskStep(slock[p])
                 \/ /\ pc[slock[p]] = "rep_acquire"
                    /\ sessions_lock \in Threads \ {slock[p]}

\* C24's case: a thread that holds a session lock waits, in _replace_session,
\* for the registry lock, which a second thread holds.
C24_Witness ==
    \E t1, t2 \in Threads :
        /\ t1 # t2
        /\ pc[t1] = "rep_acquire"
        /\ slock[sess[t1]] = t1
        /\ sessions_lock = t2
        /\ ~ENABLED AskStep(t1)

====
